---------------------------- MODULE Spec2Model ----------------------------
(***************************************************************************)
(* JARVIS voice front end: the React state container of App.tsx (first     *)
(* listing of src/unnamed/part_000, lines 1-538) together with the closure *)
(* state of JarvisService.connectLive (src/services/jarvisService.ts).     *)
(*                                                                         *)
(* One action is one browser task: an event handler (button click, socket  *)
(* message, timer, onended, audioprocess, promise continuation) followed   *)
(* by the React commit it causes and the two effects of App.tsx lines      *)
(* 28-39.  State updates made inside one task are batched: they are        *)
(* applied in call order and rendered once.                                *)
(***************************************************************************)
EXTENDS Integers, Sequences, FiniteSets, TLC

(***************************************************************************)
(* Bounds of the model (not program constants).                            *)
(***************************************************************************)
MaxAudio == 2      \* audio-bearing messages per behaviour
MaxText == 2       \* fragments accumulated in a transcription
MaxWords == 2      \* words of an error message
MaxCalls == 2      \* function calls in one tool-call message
MaxImages == 1     \* image requests in flight when a message is accepted
MaxAttempts == 2   \* startJarvis calls per behaviour
MaxParts == 3      \* parts of a generateContent response

(***************************************************************************)
(* Strings.  A string is a sequence of words; a word has lower-case text w *)
(* and a flag up telling whether it is written with capitals.  "" is <<>>. *)
(***************************************************************************)
Word(w, up) == [w |-> w, up |-> up]

Str(w) == << Word(w, FALSE) >>

toLowerCase(s) == [i \in 1..Len(s) |-> Word(s[i].w, FALSE)]

toUpperCase(s) == [i \in 1..Len(s) |-> Word(s[i].w, s[i].w # " ")]

\* text w contains the search text k as a substring
Contains(w, k) ==
    \/ w = k
    \/ w = "networkerror" /\ k = "network"
    \/ w = "unauthorized" /\ k = "auth"

\* String.prototype.includes with a lower-case literal: case-sensitive
includes(s, k) == \E i \in 1..Len(s) : ~s[i].up /\ Contains(s[i].w, k)

\* String.prototype.trim: drop leading and trailing blanks
RECURSIVE trimStart(_)
trimStart(s) == IF s # <<>> /\ Head(s).w = " " THEN trimStart(Tail(s)) ELSE s

RECURSIVE trimEnd(_)
trimEnd(s) ==
    IF s # <<>> /\ s[Len(s)].w = " " THEN trimEnd(SubSeq(s, 1, Len(s) - 1)) ELSE s

trim(s) == trimEnd(trimStart(s))

(***************************************************************************)
(* categorizeError (App.tsx 84-132).  An error has a name and a message;   *)
(* onLine is navigator.onLine at the time of the call.                     *)
(***************************************************************************)
ErrorNames == {"Error", "AbortError", "NotAllowedError", "PermissionDeniedError",
               "NotFoundError", "NotReadableError", "NotSupportedError",
               "NetworkError"}

Keywords == {"aborted", "network", "failed to fetch", "connection", "offline",
             "503", "unavailable", "overloaded", "429", "quota",
             "permission denied", "device not found", "concurrent", "busy",
             "not supported", "api key", "auth"}

\* Error.prototype.toString(): the name alone when the message is empty
errorToString(error) ==
    IF error.message = <<>>
    THEN << Word(IF error.name = "NetworkError" THEN "networkerror" ELSE "error", TRUE) >>
    ELSE << Word("error", TRUE) >> \o error.message

CatAbort == "SESSION ENDED: USER TERMINATED UPLINK."
CatOffline == "OFFLINE: DATA UPLINK SEVERED. CHECK NETWORK CONFIGURATION."
CatNetwork == "CONNECTION FAILURE: UNABLE TO CONTACT REMOTE SERVER."
CatOverload == "SERVER OVERLOAD: NEURAL ENGINE AT CAPACITY. PLEASE RETRY."
CatRate == "RATE LIMIT EXCEEDED: COOLING DOWN SYSTEMS."
CatPermission == "SECURITY ALERT: AUDIO INPUT ACCESS DENIED. PLEASE GRANT PERMISSION."
CatMissing == "HARDWARE MISSING: NO MICROPHONE DETECTED."
CatBusy == "HARDWARE CONFLICT: MICROPHONE IN USE BY ANOTHER PROCESS."
CatCompat == "COMPATIBILITY ERROR: BROWSER DOES NOT SUPPORT REQUIRED AUDIO FEATURES."
CatAuth == "AUTHENTICATION FAILED: INVALID SECURITY CREDENTIALS."
CatGeneric == "SYSTEM ERROR: "

Category(cat, detail) == [cat |-> cat, detail |-> detail]

NoError == Category("null", <<>>)

\* the mutation of categorizeError: the 429/quota test placed before the
\* 503/unavailable test
categorizeErrorSwapped(error, onLine) ==
    LET msg == toLowerCase(IF error.message # <<>> THEN error.message
                           ELSE errorToString(error))
        name == error.name
    IN  IF name = "AbortError" \/ includes(msg, "aborted") THEN Category(CatAbort, <<>>)
        ELSE IF ~onLine THEN Category(CatOffline, <<>>)
        ELSE IF \/ includes(msg, "network") \/ includes(msg, "failed to fetch")
                \/ includes(msg, "connection") \/ includes(msg, "offline")
             THEN Category(CatNetwork, <<>>)
        ELSE IF includes(msg, "429") \/ includes(msg, "quota")
             THEN Category(CatRate, <<>>)
        ELSE IF \/ includes(msg, "503") \/ includes(msg, "unavailable")
                \/ includes(msg, "overloaded")
             THEN Category(CatOverload, <<>>)
        ELSE IF \/ name = "NotAllowedError" \/ name = "PermissionDeniedError"
                \/ includes(msg, "permission denied")
             THEN Category(CatPermission, <<>>)
        ELSE IF name = "NotFoundError" \/ includes(msg, "device not found")
             THEN Category(CatMissing, <<>>)
        ELSE IF \/ name = "NotReadableError" \/ includes(msg, "concurrent")
                \/ includes(msg, "busy")
             THEN Category(CatBusy, <<>>)
        ELSE IF name = "NotSupportedError" \/ includes(msg, "not supported")
             THEN Category(CatCompat, <<>>)
        ELSE IF includes(msg, "api key") \/ includes(msg, "auth")
             THEN Category(CatAuth, <<>>)
        ELSE Category(CatGeneric,
                      IF error.message # <<>> THEN toUpperCase(error.message)
                      ELSE Str("UNKNOWN FATAL EXCEPTION"))

categorizeError(error, onLine) ==
    LET msg == toLowerCase(IF error.message # <<>> THEN error.message
                           ELSE errorToString(error))
        name == error.name
    IN  IF name = "AbortError" \/ includes(msg, "aborted") THEN Category(CatAbort, <<>>)
        ELSE IF ~onLine THEN Category(CatOffline, <<>>)
        ELSE IF \/ includes(msg, "network") \/ includes(msg, "failed to fetch")
                \/ includes(msg, "connection") \/ includes(msg, "offline")
             THEN Category(CatNetwork, <<>>)
        ELSE IF \/ includes(msg, "503") \/ includes(msg, "unavailable")
                \/ includes(msg, "overloaded")
             THEN Category(CatOverload, <<>>)
        ELSE IF includes(msg, "429") \/ includes(msg, "quota")
             THEN Category(CatRate, <<>>)
        ELSE IF \/ name = "NotAllowedError" \/ name = "PermissionDeniedError"
                \/ includes(msg, "permission denied")
             THEN Category(CatPermission, <<>>)
        ELSE IF name = "NotFoundError" \/ includes(msg, "device not found")
             THEN Category(CatMissing, <<>>)
        ELSE IF \/ name = "NotReadableError" \/ includes(msg, "concurrent")
                \/ includes(msg, "busy")
             THEN Category(CatBusy, <<>>)
        ELSE IF name = "NotSupportedError" \/ includes(msg, "not supported")
             THEN Category(CatCompat, <<>>)
        ELSE IF includes(msg, "api key") \/ includes(msg, "auth")
             THEN Category(CatAuth, <<>>)
        ELSE Category(CatGeneric,
                      IF error.message # <<>> THEN toUpperCase(error.message)
                      ELSE Str("UNKNOWN FATAL EXCEPTION"))


(***************************************************************************)
(* State.                                                                  *)
(***************************************************************************)
VARIABLES
    \* React state of App (App.tsx 7-19)
    isLiveConnected, isConnecting, voiceStatus, transcript, audioQueue,
    isPlayingAudio, errorMsg, isLocked, lastAction, blockedUrl,
    \* refs of App (App.tsx 22-25); a source is named by its position in
    \* started, 0 is null; the AudioContext is known by its state
    audioContextRef, liveSessionRef, scrollIntervalRef, currentAudioSourceRef,
    \* buffer sources created by playNextAudio
    started,        \* buffer of every source started so far, in start order
    playing,        \* sources started and neither ended nor stopped
    onended,        \* sources whose onended handler is set
    pendingResume,  \* playNextAudio calls awaiting ctx.resume(): their buffer
    \* startJarvis calls: their number, and the position of each one
    \* ("idle": not begun, or returned)
    attempts, startPc,
    \* closure state of connectLive (jarvisService.ts 209-220), one closure
    \* per startJarvis call
    session, graphConnected, currentInputTranscription,
    currentOutputTranscription, silenceTimer, isModelSpeaking,
    pendingDecode,  \* onmessage calls awaiting decodeAudioData
    \* history of the environment's observations
    nextBuffer,     \* audio-bearing messages received so far
    epochStart,     \* Len(started) at the last stopAudioPlayback
    cutoff,         \* nextBuffer and Len(started) at the last interruption
                    \* or stopJarvis
    cancelled,      \* startJarvis calls that were in progress at a stopJarvis
    serviceResult,  \* what the last sendMessage or generateImage call did
    stopped,        \* the source the last task stopped, 0 if none
    sent,           \* sendToolResponse calls made for the last message
    performed,      \* browser actions made by the last message's tool calls
    micSent,        \* session states in which sendRealtimeInput was called
    receivedOutput, \* output fragments received since the last turnComplete,
                    \* per closure
    modelTurn,      \* per closure: an audio-bearing message was received and
                    \* the turnComplete of its turn was not yet received
    transcriptCalls,\* onTranscript calls made by the last handler step
    pendingImage,   \* generateImage requests whose .then has not run
    lastEvent       \* the last task that ran

appVars == << isLiveConnected, isConnecting, transcript, errorMsg, isLocked,
              lastAction, blockedUrl, liveSessionRef, scrollIntervalRef,
              pendingImage >>

playVars == << voiceStatus, audioQueue, isPlayingAudio, audioContextRef,
               currentAudioSourceRef, started, playing, onended,
               pendingResume, epochStart, stopped, cutoff >>

liveVars == << session, graphConnected, currentInputTranscription,
               currentOutputTranscription, silenceTimer, isModelSpeaking,
               pendingDecode >>

histVars == << nextBuffer, sent, performed, micSent, receivedOutput, modelTurn,
               transcriptCalls, cancelled, serviceResult >>

vars == << appVars, playVars, liveVars, histVars, attempts, startPc, lastEvent >>

\* the startJarvis calls of a behaviour, in the order of the clicks
Attempts == 1..MaxAttempts

VoiceStatus == {"listening", "processing", "speaking", "idle"}

\* a server message (LiveServerMessage): which parts it carries
Message(toolCall, functionCalls, inputTranscription, outputTranscription, audio, turnComplete) ==
    [toolCall |-> toolCall, functionCalls |-> functionCalls,
     inputTranscription |-> inputTranscription # <<>>,
     inputText |-> inputTranscription,
     outputTranscription |-> outputTranscription # <<>>,
     outputText |-> outputTranscription,
     audio |-> audio, turnComplete |-> turnComplete]

NoMessage == Message(FALSE, <<>>, <<>>, <<>>, FALSE, FALSE)

NoErr == [name |-> "", message |-> <<>>]

\* the task that ran last: its kind, the message it handled and what
\* window.open did, whether it ran the turn-complete part and the output
\* fragments received in that turn, the error it caught and navigator.onLine,
\* the closure it ran in (0: none) with the state of that closure's session
\* when it ran, the callbacks of App it called in call order, the
\* buffer source it is about (0: none), the statuses its handler passed to
\* onStatusChange in call order, and modelTurn of its closure when it began
Event(kind) == [kind |-> kind, msg |-> NoMessage, popupOk |-> TRUE,
                turnComplete |-> FALSE, turn |-> <<>>,
                err |-> NoErr, onLine |-> TRUE,
                closure |-> 0, session |-> "none", calls |-> <<>>,
                source |-> 0, statuses |-> <<>>, modelTurn |-> FALSE]

\* a task of closure a that called the callbacks calls
ClosureEvent(kind, a, calls) ==
    [Event(kind) EXCEPT !.closure = a, !.session = session[a], !.calls = calls]

Failed(kind, err, onLine) == [Event(kind) EXCEPT !.err = err, !.onLine = onLine]

NoTranscript == [role |-> "null", text |-> <<>>]

(***************************************************************************)
(* Playback.  The operators below work on a record of the playback state   *)
(* so that a handler, the commit and the effects compose in call order.    *)
(***************************************************************************)
Play == [voiceStatus |-> voiceStatus, audioQueue |-> audioQueue,
         isPlayingAudio |-> isPlayingAudio, ctx |-> audioContextRef,
         currentAudioSourceRef |-> currentAudioSourceRef,
         started |-> started, playing |-> playing, onended |-> onended,
         pendingResume |-> pendingResume, epochStart |-> epochStart,
         stopped |-> 0, cutoff |-> cutoff, received |-> nextBuffer]

\* a stopAudioPlayback that clears the queue and forgets the source without
\* stopping it
stopAudioPlaybackNoStop(r) ==
    [r EXCEPT !.audioQueue = <<>>,
              !.isPlayingAudio = FALSE,
              !.currentAudioSourceRef = 0,
              !.epochStart = Len(r.started)]

\* stopAudioPlayback (App.tsx 49-60)
stopAudioPlayback(r) ==
    [r EXCEPT !.audioQueue = <<>>,
              !.isPlayingAudio = FALSE,
              !.onended = @ \ {r.currentAudioSourceRef},
              !.playing = @ \ {r.currentAudioSourceRef},
              !.currentAudioSourceRef = 0,
              !.epochStart = Len(r.started),
              !.stopped = IF r.currentAudioSourceRef # 0
                          THEN r.currentAudioSourceRef ELSE @]

\* App.tsx 210-223: create a source for the buffer, remember it, start it
startSource(r, buffer) ==
    LET source == Len(r.started) + 1
    IN  [r EXCEPT !.started = Append(@, buffer),
                  !.playing = @ \cup {source},
                  !.onended = @ \cup {source},
                  !.currentAudioSourceRef = source]

\* playNextAudio up to its await (App.tsx 197-224); audioQueue is the queue
\* of the render that ran the effect
playNextAudio(r) ==
    IF r.audioQueue = <<>> THEN r
    ELSE LET r1 == [r EXCEPT !.isPlayingAudio = TRUE,
                             !.ctx = IF @ = "none" THEN "suspended" ELSE @]
         IN  IF r1.ctx = "suspended"
             THEN [r1 EXCEPT !.pendingResume = Append(@, Head(r.audioQueue))]
             ELSE startSource(r1, Head(r.audioQueue))

\* the continuations of every playNextAudio call that awaited ctx.resume()
RECURSIVE resumePlayNextAudio(_)
resumePlayNextAudio(r) ==
    IF r.pendingResume = <<>> THEN r
    ELSE resumePlayNextAudio(
             startSource([r EXCEPT !.pendingResume = Tail(@)], Head(r.pendingResume)))

\* Audio Playback Queue Worker (App.tsx 28-32)
queueWorkerEffect(r) ==
    IF Len(r.audioQueue) > 0 /\ ~r.isPlayingAudio THEN playNextAudio(r) ELSE r

\* the messages received and the sources started up to a clear of the queue
Cutoff(received, sources) == [received |-> received, started |-> sources]

\* Interruption Handling (App.tsx 35-39); prev is voiceStatus of the
\* previous render
interruptionEffect(prev, r) ==
    IF r.voiceStatus # prev /\ r.voiceStatus \in {"listening", "processing"}
    THEN [stopAudioPlayback(r) EXCEPT !.cutoff = Cutoff(r.received, Len(r.started))]
    ELSE r

\* one commit: the effects in declaration order, then the commit caused by
\* the effects' own updates
Effects(prev, r) ==
    LET r1 == interruptionEffect(prev, queueWorkerEffect(r))
    IN  queueWorkerEffect(r1)

Render(r) ==
    LET e == Effects(voiceStatus, r)
    IN  /\ voiceStatus' = e.voiceStatus
        /\ audioQueue' = e.audioQueue
        /\ isPlayingAudio' = e.isPlayingAudio
        /\ audioContextRef' = e.ctx
        /\ currentAudioSourceRef' = e.currentAudioSourceRef
        /\ started' = e.started
        /\ playing' = e.playing
        /\ onended' = e.onended
        /\ pendingResume' = e.pendingResume
        /\ epochStart' = e.epochStart
        /\ stopped' = e.stopped
        /\ cutoff' = e.cutoff

(***************************************************************************)
(* Tool calls.  A function call is [id, name, hasArgs, args]; args has the *)
(* string fields query, url, action, prompt, type, "" when absent.  A tool *)
(* result is [kind, text].  The callback works on a record t of the app    *)
(* state it touches and returns [t, result].                               *)
(***************************************************************************)
Result(kind, text) == [kind |-> kind, text |-> text]

NoUrl == [base |-> "", q |-> <<>>]

\* encodeURIComponent: a blank becomes %20, other words are kept
encodeURIComponent(s) ==
    [i \in 1..Len(s) |-> IF s[i].w = " " THEN Word("%20", FALSE) ELSE s[i]]

\* safeArg (App.tsx 260)
safeArg(val) == IF val # <<>> THEN val ELSE <<>>

Tool == [lastAction |-> lastAction, isLocked |-> isLocked,
         scrollIntervalRef |-> scrollIntervalRef, blockedUrl |-> blockedUrl,
         performed |-> <<>>, pendingImage |-> pendingImage,
         responses |-> <<>>]

\* handleScroll (App.tsx 175-195)
handleScroll(t, action) ==
    [t EXCEPT !.scrollIntervalRef = (action = Str("auto")),
              !.performed = Append(@, [act |-> "scroll", arg |-> action])]

\* the name the callback tests for a Google search (App.tsx 301)
SearchToolName == "performGoogleSearch"

\* the tool callback startJarvis passes to connectLive (App.tsx 258-333)
toolCallback(name, args, t, popupOk) ==
    IF name = "generateImage" THEN
        LET prompt == safeArg(args.prompt)
        IN  IF prompt = <<>>
            THEN [t |-> t, result |-> Result("error", "Missing prompt")]
            ELSE [t |-> [t EXCEPT !.lastAction = "GENERATING IMAGE...",
                                  !.pendingImage = @ + 1,
                                  !.performed = Append(@, [act |-> "generateImage",
                                                           arg |-> prompt])],
                  result |-> Result("status", "Generating image displayed to user")]
    ELSE IF name = "lockSystem" THEN
        [t |-> [t EXCEPT !.isLocked = TRUE,
                         !.performed = Append(@, [act |-> "lock", arg |-> <<>>])],
         result |-> Result("status", "System locked")]
    ELSE IF name = "scrollPage" THEN
        LET action == safeArg(args.action)
        IN  IF action \notin {Str("up"), Str("down"), Str("auto"), Str("stop")}
            THEN [t |-> t, result |-> Result("error", "Invalid action")]
            ELSE [t |-> [handleScroll(t, action) EXCEPT !.lastAction = "SCROLL"],
                  result |-> Result("status", "Scrolled")]
    ELSE IF name = "controlMedia" THEN
        [t |-> [t EXCEPT !.lastAction = "MEDIA",
                         !.performed = Append(@, [act |-> "key", arg |-> Str("k")])],
         result |-> Result("status", "Media toggle executed")]
    ELSE
        LET query == safeArg(args.query)
            type == IF safeArg(args.type) # <<>> THEN safeArg(args.type) ELSE Str("video")
            sq == IF type = Str("short") THEN query \o Str(" ") \o Str("shorts") ELSE query
            url == IF name = SearchToolName
                   THEN [base |-> "https://www.google.com/search?q=",
                         q |-> encodeURIComponent(query)]
                   ELSE IF name = "playMedia"
                   THEN [base |-> "https://www.youtube.com/results?search_query=",
                         q |-> encodeURIComponent(sq)]
                   ELSE IF name = "openWebsite"
                   THEN [base |-> "", q |-> safeArg(args.url)]
                   ELSE NoUrl
            actionLabel == IF name = SearchToolName THEN "SEARCHING"
                           ELSE IF name = "playMedia" THEN "PLAYING"
                           ELSE IF name = "openWebsite" THEN "OPENING"
                           ELSE ""
        IN  IF url # NoUrl THEN
                IF ~popupOk
                THEN [t |-> [t EXCEPT !.blockedUrl = url,
                                      !.lastAction = "POPUP BLOCKED",
                                      !.performed = Append(@, [act |-> "blocked",
                                                               arg |-> <<>>])],
                      result |-> Result("error", "Browser blocked the popup window. User has been alerted manually.")]
                ELSE [t |-> [t EXCEPT !.lastAction = actionLabel,
                                      !.performed = Append(@, [act |-> "window.open",
                                                               arg |-> << url >>])],
                      result |-> Result("status", "Opened successfully")]
            ELSE IF name \in {SearchToolName, "playMedia", "openWebsite"}
            THEN [t |-> [t EXCEPT !.lastAction = "CMD ERR: MISSING PARAMS"],
                  result |-> Result("error", "Missing required parameters (url or query)")]
            ELSE [t |-> t, result |-> Result("error", "Unknown tool")]

\* the names connectLive hands to the callback (jarvisService.ts 239)
Delegated == {"openWebsite", "googleSearch", "playMedia", "controlMedia",
              "scrollPage", "generateImage", "lockSystem"}

\* the callback reads a property of args before anything else, except for
\* lockSystem: with args undefined that read throws
callbackThrows(fc) == ~fc.hasArgs /\ fc.name # "lockSystem"

\* one iteration of the loop over functionCalls (jarvisService.ts 232-261)
executeTool(t, fc, popupOk) ==
    LET called == toolCallback(fc.name, fc.args, t, popupOk)
        t1 == IF fc.name \in Delegated /\ ~callbackThrows(fc) THEN called.t ELSE t
        result == IF fc.name \in Delegated
                  THEN IF callbackThrows(fc) THEN Result("error", "Execution failed")
                       ELSE called.result
                  ELSE IF fc.name = "getCurrentTime" THEN Result("time", "")
                  ELSE IF fc.name = "getSystemStatus" THEN Result("status", "nominal")
                  ELSE Result("empty", "")
    IN  [t1 EXCEPT !.responses = Append(@, [id |-> fc.id, name |-> fc.name,
                                            response |-> [result |-> result]])]

\* a loop that answers only the first function call of a message
RECURSIVE executeToolsFirstOnly(_, _, _)
executeToolsFirstOnly(t, functionCalls, popupOk) ==
    IF functionCalls = <<>> THEN t
    ELSE executeTool(t, Head(functionCalls), popupOk)

RECURSIVE executeTools(_, _, _)
executeTools(t, functionCalls, popupOk) ==
    IF functionCalls = <<>> THEN t
    ELSE executeTools(executeTool(t, Head(functionCalls), popupOk),
                      Tail(functionCalls), popupOk)

(***************************************************************************)
(* JarvisService.sendMessage and generateImage (jarvisService.ts 149-192). *)
(* The remote call ai.models.generateContent either rejects or resolves    *)
(* with a response: [throws, text, parts], parts being the parts of the    *)
(* first candidate (<<>> when there is none), each [inlineData, data].     *)
(* A returned value is [kind, value]; a call yields [throws, contacted,    *)
(* value].                                                                 *)
(***************************************************************************)
Null == [kind |-> "null", value |-> <<>>]

Response(throws, text, parts) == [throws |-> throws, text |-> text, parts |-> parts]

Part(inlineData, data) == [inlineData |-> inlineData, data |-> data]

Outcome(throws, contacted, value) ==
    [throws |-> throws, contacted |-> contacted, value |-> value]

TextApiKeyMissing ==
    << Word("api key", TRUE), Word(" ", FALSE),
       Word("is missing. please check your environment configuration.", TRUE) >>

TextFallback == << Word("sorry sir, connection mein kuch issue hai.", TRUE) >>

TextErrorConnecting == << Word("error connecting to neural network.", TRUE) >>

\* sendMessage (jarvisService.ts 149-171)
sendMessage(apiKey, remote) ==
    IF ~apiKey
    THEN Outcome(FALSE, FALSE, [kind |-> "text", value |-> TextApiKeyMissing])
    ELSE IF remote.throws
    THEN Outcome(FALSE, TRUE, [kind |-> "text", value |-> TextErrorConnecting])
    ELSE Outcome(FALSE, TRUE,
                 [kind |-> "text",
                  value |-> IF remote.text # <<>> THEN remote.text ELSE TextFallback])

\* the loop over the parts (jarvisService.ts 182-186)
RECURSIVE firstInlineData(_)
firstInlineData(parts) ==
    IF parts = <<>> THEN Null
    ELSE IF Head(parts).inlineData
         THEN [kind |-> "data", value |-> Head(parts).data]
         ELSE firstInlineData(Tail(parts))

\* a generateImage that returns the data of the first part, inline or not
generateImageFirstPart(apiKey, remote) ==
    IF ~apiKey THEN Outcome(FALSE, FALSE, Null)
    ELSE IF remote.throws THEN Outcome(FALSE, TRUE, Null)
    ELSE Outcome(FALSE, TRUE,
                 IF remote.parts = <<>> THEN Null
                 ELSE [kind |-> "data", value |-> Head(remote.parts).data])

\* generateImage (jarvisService.ts 173-192)
generateImage(apiKey, remote) ==
    IF ~apiKey THEN Outcome(FALSE, FALSE, Null)
    ELSE IF remote.throws THEN Outcome(FALSE, TRUE, Null)
    ELSE Outcome(FALSE, TRUE, firstInlineData(remote.parts))

\* no call of the service has been made
NoCall == [fn |-> "none", apiKey |-> TRUE, remote |-> Response(FALSE, <<>>, <<>>),
           outcome |-> Outcome(FALSE, FALSE, Null)]

(***************************************************************************)
(* Initial state: App mounted, no session.                                 *)
(***************************************************************************)
Init ==
    /\ isLiveConnected = FALSE /\ isConnecting = FALSE /\ voiceStatus = "idle"
    /\ transcript = NoTranscript /\ audioQueue = <<>> /\ isPlayingAudio = FALSE
    /\ errorMsg = NoError /\ isLocked = FALSE /\ lastAction = "null"
    /\ blockedUrl = NoUrl
    /\ audioContextRef = "none" /\ liveSessionRef = 0
    /\ scrollIntervalRef = FALSE /\ currentAudioSourceRef = 0
    /\ started = <<>> /\ playing = {} /\ onended = {} /\ pendingResume = <<>>
    /\ attempts = 0
    /\ startPc = [a \in Attempts |-> "idle"]
    /\ session = [a \in Attempts |-> "none"]
    /\ graphConnected = [a \in Attempts |-> FALSE]
    /\ currentInputTranscription = [a \in Attempts |-> <<>>]
    /\ currentOutputTranscription = [a \in Attempts |-> <<>>]
    /\ silenceTimer = [a \in Attempts |-> FALSE]
    /\ isModelSpeaking = [a \in Attempts |-> FALSE]
    /\ pendingDecode = <<>>
    /\ nextBuffer = 0 /\ epochStart = 0 /\ stopped = 0
    /\ cutoff = Cutoff(0, 0)
    /\ sent = <<>> /\ performed = <<>> /\ micSent = {}
    /\ receivedOutput = [a \in Attempts |-> <<>>]
    /\ modelTurn = [a \in Attempts |-> FALSE]
    /\ transcriptCalls = <<>> /\ pendingImage = 0
    /\ cancelled = {} /\ serviceResult = NoCall
    /\ lastEvent = Event("mount")

(***************************************************************************)
(* startJarvis (App.tsx 226-357), one action per stretch between awaits.   *)
(* Call a is the a-th Initiate click; it owns the connectLive closure a.   *)
(***************************************************************************)
ErrNoMediaApi ==
    [name |-> "Error",
     message |-> << Word("microphone api not available (requires https).", TRUE) >>]

ErrNoApiKey ==
    [name |-> "Error",
     message |-> << Word("api key", TRUE), Word(" ", FALSE),
                    Word("is missing in environment variables.", FALSE) >>]

\* a catch block that leaves isConnecting as it is
StartCatchKeepConnecting(a, err, onLine) ==
    /\ errorMsg' = categorizeError(err, onLine)
    /\ isLiveConnected' = FALSE
    /\ isConnecting' = isConnecting
    /\ startPc' = [startPc EXCEPT ![a] = "idle"]

\* the catch block of startJarvis (App.tsx 351-356)
StartCatch(a, err, onLine) ==
    /\ errorMsg' = categorizeError(err, onLine)
    /\ isLiveConnected' = FALSE
    /\ isConnecting' = FALSE
    /\ startPc' = [startPc EXCEPT ![a] = "idle"]

\* Initiate click up to the first await.  hasMediaApi: navigator.mediaDevices
\* exists; created: the state of a newly created AudioContext
StartJarvis(hasMediaApi, created, onLine) ==
    /\ ~isConnecting /\ ~isLiveConnected
    /\ attempts < MaxAttempts
    /\ attempts' = attempts + 1
    /\ transcript' = NoTranscript
    /\ blockedUrl' = NoUrl
    /\ LET a == attempts + 1
           ctx == IF hasMediaApi /\ audioContextRef = "none" THEN created
                  ELSE audioContextRef
       IN  /\ IF ~hasMediaApi
              THEN StartCatch(a, ErrNoMediaApi, onLine)
              ELSE /\ errorMsg' = NoError
                   /\ isConnecting' = TRUE
                   /\ isLiveConnected' = isLiveConnected
                   /\ startPc' = [startPc EXCEPT ![a] =
                                      IF ctx = "suspended" THEN "resume" ELSE "media"]
           /\ Render([Play EXCEPT !.voiceStatus = "processing",
                                  !.audioQueue = <<>>,
                                  !.ctx = ctx])
           /\ lastEvent' = [(IF hasMediaApi THEN Event("startJarvis")
                             ELSE Failed("startJarvis", ErrNoMediaApi, onLine))
                            EXCEPT !.closure = a]
    /\ UNCHANGED << isLocked, lastAction, liveSessionRef, scrollIntervalRef,
                    pendingImage, liveVars, histVars >>

\* ctx.resume() resolves: the context runs, and every call that awaited it
\* continues (startJarvis at App.tsx 247, playNextAudio at 207)
ResumeDone ==
    /\ audioContextRef = "suspended"
    /\ pendingResume # <<>> \/ \E a \in Attempts : startPc[a] = "resume"
    /\ startPc' = [a \in Attempts |->
                       IF startPc[a] = "resume" THEN "media" ELSE startPc[a]]
    /\ Render(resumePlayNextAudio([Play EXCEPT !.ctx = "running"]))
    /\ lastEvent' = Event("resume")
    /\ UNCHANGED << appVars, liveVars, histVars, attempts >>

\* getMediaStream rejects (App.tsx 250, 134-154)
MediaFail(a, err, onLine) ==
    /\ startPc[a] = "media"
    /\ StartCatch(a, err, onLine)
    /\ Render(Play)
    /\ lastEvent' = [Failed("mediaFail", err, onLine) EXCEPT !.closure = a]
    /\ UNCHANGED << transcript, isLocked, lastAction, blockedUrl, liveSessionRef,
                    scrollIntervalRef, pendingImage, liveVars, histVars, attempts >>

\* getMediaStream resolves and connectLive runs up to await sessionPromise
\* (jarvisService.ts 204-220, 342)
MediaDone(a, hasApiKey, onLine) ==
    /\ startPc[a] = "media"
    /\ IF hasApiKey
       THEN /\ session' = [session EXCEPT ![a] = "connecting"]
            /\ startPc' = [startPc EXCEPT ![a] = "connect"]
            /\ UNCHANGED << errorMsg, isLiveConnected, isConnecting >>
       ELSE /\ StartCatch(a, ErrNoApiKey, onLine)
            /\ UNCHANGED session
    /\ Render(Play)
    /\ lastEvent' = [(IF hasApiKey THEN Event("mediaDone")
                      ELSE Failed("mediaDone", ErrNoApiKey, onLine))
                     EXCEPT !.closure = a]
    /\ UNCHANGED << transcript, isLocked, lastAction, blockedUrl, liveSessionRef,
                    scrollIntervalRef, pendingImage, graphConnected,
                    currentInputTranscription, currentOutputTranscription,
                    silenceTimer, isModelSpeaking, pendingDecode, histVars,
                    attempts >>

\* ai.live.connect rejects (jarvisService.ts 342)
ConnectFail(a, err, onLine) ==
    /\ startPc[a] = "connect" /\ session[a] = "connecting"
    /\ session' = [session EXCEPT ![a] = "none"]
    /\ StartCatch(a, err, onLine)
    /\ Render(Play)
    /\ lastEvent' = [Failed("connectFail", err, onLine) EXCEPT !.closure = a]
    /\ UNCHANGED << transcript, isLocked, lastAction, blockedUrl, liveSessionRef,
                    scrollIntervalRef, pendingImage, graphConnected,
                    currentInputTranscription, currentOutputTranscription,
                    silenceTimer, isModelSpeaking, pendingDecode, histVars,
                    attempts >>

\* the socket opens: onopen (jarvisService.ts 223-226), then connectLive
\* wires the microphone graph and returns (344-362), then startJarvis
\* stores the session and sets isLiveConnected (App.tsx 252, 349)
ConnectOpen(a) ==
    /\ startPc[a] = "connect" /\ session[a] = "connecting"
    /\ session' = [session EXCEPT ![a] = "open"]
    /\ graphConnected' = [graphConnected EXCEPT ![a] = TRUE]
    /\ liveSessionRef' = a
    /\ isLiveConnected' = TRUE
    /\ startPc' = [startPc EXCEPT ![a] = "idle"]
    /\ Render([Play EXCEPT !.voiceStatus = "idle"])
    /\ lastEvent' = ClosureEvent("connectOpen", a, << "onStatusChange" >>)
    /\ UNCHANGED << isConnecting, transcript, errorMsg, isLocked, lastAction,
                    blockedUrl, scrollIntervalRef, pendingImage,
                    currentInputTranscription, currentOutputTranscription,
                    silenceTimer, isModelSpeaking, pendingDecode, histVars,
                    attempts >>

(***************************************************************************)
(* Ending the session.                                                     *)
(***************************************************************************)
\* disconnect of closure a (jarvisService.ts 355-361): a record of the
\* closure state it changes
disconnect(a) ==
    [graphConnected |-> [graphConnected EXCEPT ![a] = FALSE],
     silenceTimer |-> [silenceTimer EXCEPT ![a] = FALSE],
     session |-> [session EXCEPT ![a] = IF @ = "open" THEN "closing" ELSE @]]

\* Terminate Uplink click: stopJarvis (App.tsx 359-372) with disconnect;
\* session.close() returns at once, so the whole of stopJarvis runs before
\* any other task
StopJarvis ==
    /\ isLiveConnected \/ isConnecting
    /\ IF liveSessionRef # 0
       THEN /\ graphConnected' = disconnect(liveSessionRef).graphConnected
            /\ silenceTimer' = disconnect(liveSessionRef).silenceTimer
            /\ session' = disconnect(liveSessionRef).session
       ELSE UNCHANGED << graphConnected, silenceTimer, session >>
    /\ liveSessionRef' = 0
    /\ scrollIntervalRef' = FALSE
    /\ isLiveConnected' = FALSE
    /\ isConnecting' = FALSE
    /\ Render([stopAudioPlayback(Play) EXCEPT
                   !.voiceStatus = "idle",
                   !.cutoff = Cutoff(nextBuffer, Len(started))])
    /\ cancelled' = cancelled \cup {a \in Attempts : startPc[a] # "idle"}
    /\ lastEvent' = IF liveSessionRef # 0
                     THEN ClosureEvent("stopJarvis", liveSessionRef, <<>>)
                     ELSE Event("stopJarvis")
    /\ UNCHANGED << transcript, errorMsg, isLocked, lastAction, blockedUrl,
                    pendingImage, currentInputTranscription,
                    currentOutputTranscription, isModelSpeaking, pendingDecode,
                    nextBuffer, sent, performed, micSent, receivedOutput, modelTurn,
                    transcriptCalls, serviceResult, attempts, startPc >>

\* the onClose callback of App (App.tsx 334-339)
onClose(r) == [stopAudioPlayback(r) EXCEPT !.voiceStatus = "idle"]

\* the socket of closure a closes: onclose (jarvisService.ts 320-323)
SessionClose(a) ==
    /\ session[a] \in {"open", "closing"}
    /\ session' = [session EXCEPT ![a] = "closed"]
    /\ isLiveConnected' = FALSE
    /\ isConnecting' = FALSE
    /\ Render(onClose(Play))
    /\ lastEvent' = ClosureEvent("onclose", a, << "onClose" >>)
    /\ UNCHANGED << transcript, errorMsg, isLocked, lastAction, blockedUrl,
                    liveSessionRef, scrollIntervalRef, pendingImage,
                    graphConnected, currentInputTranscription,
                    currentOutputTranscription, silenceTimer, isModelSpeaking,
                    pendingDecode, histVars, attempts, startPc >>

ErrNetworkConnection ==
    [name |-> "Error",
     message |-> << Word("network", TRUE), Word(" ", FALSE),
                    Word("connection", FALSE), Word(" ", FALSE),
                    Word("error", FALSE) >>]

\* the socket of closure a reports an error: onerror (jarvisService.ts
\* 324-328) calls onError (App.tsx 340-346) and onClose; the socket's close
\* event follows.  isError: the value reported is an Error
SessionError(a, err, isError, onLine) ==
    /\ session[a] = "open"
    /\ session' = [session EXCEPT ![a] = "closing"]
    /\ errorMsg' = categorizeError(IF isError THEN err ELSE ErrNetworkConnection, onLine)
    /\ isLiveConnected' = FALSE
    /\ isConnecting' = FALSE
    /\ Render(onClose(stopAudioPlayback(Play)))
    /\ lastEvent' = [ClosureEvent("onerror", a, << "onError", "onClose" >>)
                     EXCEPT !.err = IF isError THEN err ELSE ErrNetworkConnection,
                            !.onLine = onLine]
    /\ UNCHANGED << transcript, isLocked, lastAction, blockedUrl,
                    liveSessionRef, scrollIntervalRef, pendingImage,
                    graphConnected, currentInputTranscription,
                    currentOutputTranscription, silenceTimer, isModelSpeaking,
                    pendingDecode, histVars, attempts, startPc >>

\* scriptProcessor.onaudioprocess of closure a (jarvisService.ts 344-348):
\* fires while the node is connected
AudioProcess(a) ==
    /\ graphConnected[a]
    /\ micSent' = micSent \cup {session[a]}
    /\ lastEvent' = ClosureEvent("audioprocess", a, <<>>)
    /\ UNCHANGED << appVars, playVars, liveVars, attempts, startPc, nextBuffer,
                    sent, performed, receivedOutput, modelTurn, transcriptCalls,
                    cancelled, serviceResult >>

(***************************************************************************)
(* onmessage (jarvisService.ts 227-319).  Live is the state of closure a   *)
(* with the app state its callbacks set; calls are the onTranscript calls  *)
(* and emitted the callbacks of App called, in call order.                 *)
(***************************************************************************)
Live(a, status) ==
    [voiceStatus |-> status, transcript |-> transcript,
     currentInputTranscription |-> currentInputTranscription[a],
     currentOutputTranscription |-> currentOutputTranscription[a],
     silenceTimer |-> silenceTimer[a], isModelSpeaking |-> isModelSpeaking[a],
     calls |-> <<>>, emitted |-> <<>>, statuses |-> <<>>]

\* onStatusChange(status) (App.tsx 256)
onStatusChange(l, status) ==
    [l EXCEPT !.voiceStatus = status, !.emitted = Append(@, "onStatusChange"),
              !.statuses = Append(@, status)]

\* 1. Handle Tool Calls: the status (230)
toolPart(l) == onStatusChange(l, "processing")

\* 2. User Input Transcription (269-283)
inputPart(l, text) ==
    LET l1 == [l EXCEPT !.currentInputTranscription = @ \o text]
        l2 == IF ~l1.isModelSpeaking THEN onStatusChange(l1, "listening") ELSE l1
    IN  [l2 EXCEPT !.silenceTimer = TRUE]

\* 3. Audio Output up to the await (286-294)
audioPart(l, msg) ==
    LET l1 == [l EXCEPT !.silenceTimer = FALSE, !.isModelSpeaking = TRUE]
        l2 == onStatusChange(l1, "speaking")
    IN  [l2 EXCEPT !.currentOutputTranscription =
                       IF msg.outputTranscription THEN @ \o msg.outputText ELSE @]

\* part 4 without the clearTimeout of the silence timer
turnCompletePartKeepTimer(l) ==
    LET deliver == trim(l.currentOutputTranscription) # <<>>
        entry == [role |-> "model", text |-> l.currentOutputTranscription]
        l1 == [l EXCEPT !.isModelSpeaking = FALSE,
                        !.transcript = IF deliver THEN entry ELSE @,
                        !.calls = IF deliver THEN Append(@, entry) ELSE @,
                        !.emitted = IF deliver THEN Append(@, "onTranscript") ELSE @,
                        !.currentInputTranscription = <<>>,
                        !.currentOutputTranscription = <<>>]
    IN  onStatusChange(l1, "idle")

\* 4. Turn Complete (306-318)
turnCompletePart(l) ==
    LET deliver == trim(l.currentOutputTranscription) # <<>>
        entry == [role |-> "model", text |-> l.currentOutputTranscription]
        l1 == [l EXCEPT !.isModelSpeaking = FALSE,
                        !.silenceTimer = FALSE,
                        !.transcript = IF deliver THEN entry ELSE @,
                        !.calls = IF deliver THEN Append(@, entry) ELSE @,
                        !.emitted = IF deliver THEN Append(@, "onTranscript") ELSE @,
                        !.currentInputTranscription = <<>>,
                        !.currentOutputTranscription = <<>>]
    IN  onStatusChange(l1, "idle")

SetLive(a, l) ==
    /\ transcript' = l.transcript
    /\ currentInputTranscription' = [currentInputTranscription EXCEPT
                                         ![a] = l.currentInputTranscription]
    /\ currentOutputTranscription' = [currentOutputTranscription EXCEPT
                                          ![a] = l.currentOutputTranscription]
    /\ silenceTimer' = [silenceTimer EXCEPT ![a] = l.silenceTimer]
    /\ isModelSpeaking' = [isModelSpeaking EXCEPT ![a] = l.isModelSpeaking]
    /\ transcriptCalls' = l.calls

\* a message arrives on the session of closure a; popupOk: window.open
\* returns a window
OnMessage(a, msg, popupOk) ==
    /\ session[a] = "open"
    /\ msg.audio => nextBuffer < MaxAudio
    /\ Len(currentInputTranscription[a]) + Len(msg.inputText) <= MaxText
    /\ Len(receivedOutput[a]) + Len(msg.outputText) <= MaxText
    /\ Len(msg.functionCalls) <= MaxCalls
    /\ pendingImage < MaxImages
    /\ LET t == IF msg.toolCall THEN executeTools(Tool, msg.functionCalls, popupOk)
                ELSE Tool
           l0 == IF msg.toolCall THEN toolPart(Live(a, voiceStatus))
                 ELSE Live(a, voiceStatus)
           l1 == IF msg.inputTranscription THEN inputPart(l0, msg.inputText) ELSE l0
           l2 == IF msg.audio THEN audioPart(l1, msg) ELSE l1
           now == msg.turnComplete /\ ~msg.audio
           l3 == IF now THEN turnCompletePart(l2) ELSE l2
           received == IF msg.outputTranscription
                       THEN receivedOutput[a] \o msg.outputText
                       ELSE receivedOutput[a]
       IN  /\ lastAction' = t.lastAction
           /\ isLocked' = t.isLocked
           /\ scrollIntervalRef' = t.scrollIntervalRef
           /\ blockedUrl' = t.blockedUrl
           /\ pendingImage' = t.pendingImage
           /\ performed' = t.performed
           /\ sent' = IF msg.toolCall THEN << t.responses >> ELSE <<>>
           /\ SetLive(a, l3)
           /\ nextBuffer' = IF msg.audio THEN nextBuffer + 1 ELSE nextBuffer
           /\ pendingDecode' = IF msg.audio
                               THEN Append(pendingDecode,
                                           [buffer |-> nextBuffer + 1,
                                            closure |-> a,
                                            turnComplete |-> msg.turnComplete,
                                            turn |-> received])
                               ELSE pendingDecode
           /\ receivedOutput' = [receivedOutput EXCEPT ![a] =
                                     IF msg.turnComplete THEN <<>> ELSE received]
           /\ modelTurn' = [modelTurn EXCEPT ![a] =
                                IF msg.turnComplete THEN FALSE
                                ELSE IF msg.audio THEN TRUE ELSE @]
           /\ Render([Play EXCEPT !.voiceStatus = l3.voiceStatus])
           /\ lastEvent' = [ClosureEvent("message", a, l3.emitted)
                            EXCEPT !.msg = msg,
                                   !.popupOk = popupOk,
                                   !.statuses = l3.statuses,
                                   !.modelTurn = modelTurn[a],
                                   !.turnComplete = now,
                                   !.turn = IF now THEN received ELSE <<>>]
    /\ UNCHANGED << isLiveConnected, isConnecting, errorMsg, liveSessionRef,
                    session, graphConnected, micSent, cancelled, serviceResult,
                    attempts, startPc >>

\* the silence timer of closure a fires (jarvisService.ts 278-282)
SilenceTimeout(a) ==
    /\ silenceTimer[a]
    /\ silenceTimer' = [silenceTimer EXCEPT ![a] = FALSE]
    /\ LET fire == ~isModelSpeaking[a] /\ Len(trim(currentInputTranscription[a])) > 0
           l == IF fire THEN onStatusChange(Live(a, voiceStatus), "processing")
                ELSE Live(a, voiceStatus)
       IN  /\ Render([Play EXCEPT !.voiceStatus = l.voiceStatus])
           /\ lastEvent' = [ClosureEvent("silenceTimer", a, l.emitted)
                            EXCEPT !.statuses = l.statuses,
                                   !.modelTurn = modelTurn[a]]
    /\ UNCHANGED << appVars, session, graphConnected, currentInputTranscription,
                    currentOutputTranscription, isModelSpeaking, pendingDecode,
                    histVars, attempts, startPc >>

\* the promises of decodeAudioData that can resolve next: the function is
\* in audioUtils; the handlers that await it are not ordered by onmessage
decodeAudioData(pending) == 1..Len(pending)

\* decodeAudioData resolves for one waiting onmessage call, which goes on
\* with onAudioData (jarvisService.ts 302, App.tsx 255) and part 4
DecodeDone(i) ==
    /\ i \in decodeAudioData(pendingDecode)
    /\ LET d == pendingDecode[i]
           l0 == [Live(d.closure, voiceStatus) EXCEPT !.emitted = << "onAudioData" >>]
           l == IF d.turnComplete THEN turnCompletePart(l0) ELSE l0
       IN  /\ pendingDecode' = SubSeq(pendingDecode, 1, i - 1)
                                 \o SubSeq(pendingDecode, i + 1, Len(pendingDecode))
           /\ SetLive(d.closure, l)
           /\ Render([Play EXCEPT !.audioQueue = Append(@, d.buffer),
                                  !.voiceStatus = l.voiceStatus])
           /\ lastEvent' = [ClosureEvent("decoded", d.closure, l.emitted)
                            EXCEPT !.turnComplete = d.turnComplete,
                                   !.statuses = l.statuses,
                                   !.modelTurn = modelTurn[d.closure],
                                   !.turn = IF d.turnComplete THEN d.turn
                                            ELSE <<>>]
    /\ UNCHANGED << isLiveConnected, isConnecting, errorMsg, isLocked, lastAction,
                    blockedUrl, liveSessionRef, scrollIntervalRef, pendingImage,
                    session, graphConnected, nextBuffer, sent,
                    performed, micSent, receivedOutput, modelTurn, cancelled, serviceResult,
                    attempts, startPc >>

(***************************************************************************)
(* The audio context and its sources.                                      *)
(***************************************************************************)
\* source.onended without the reset of isPlayingAudio
sourceOnendedKeepFlag(r) ==
    [r EXCEPT !.currentAudioSourceRef = 0,
              !.audioQueue = IF @ = <<>> THEN @ ELSE Tail(@)]

\* source.onended (App.tsx 217-221)
sourceOnended(r) ==
    [r EXCEPT !.currentAudioSourceRef = 0,
              !.audioQueue = IF @ = <<>> THEN @ ELSE Tail(@),
              !.isPlayingAudio = FALSE]

\* a started source reaches the end of its buffer; time passes only while
\* the context runs
SourceEnded(source) ==
    /\ source \in playing
    /\ audioContextRef = "running"
    /\ LET r == [Play EXCEPT !.playing = @ \ {source}, !.onended = @ \ {source}]
       IN  Render(IF source \in onended THEN sourceOnended(r) ELSE r)
    /\ lastEvent' = [Event("ended") EXCEPT !.source = source]
    /\ UNCHANGED << appVars, liveVars, histVars, attempts, startPc >>

\* the browser suspends the running context (the state playNextAudio and
\* startJarvis test for before they resume it)
ContextSuspended ==
    /\ audioContextRef = "running"
    /\ audioContextRef' = "suspended"
    /\ lastEvent' = Event("suspended")
    /\ UNCHANGED << appVars, liveVars, histVars, attempts, startPc, voiceStatus,
                    audioQueue, isPlayingAudio, currentAudioSourceRef, started,
                    playing, onended, pendingResume, epochStart, stopped,
                    cutoff >>

(***************************************************************************)
(* Remaining handlers of App.                                              *)
(***************************************************************************)
\* the 3 s timer of the lastAction effect (App.tsx 42-47)
ClearLastAction ==
    /\ lastAction \notin {"null", "POPUP BLOCKED"}
    /\ lastAction' = "null"
    /\ lastEvent' = Event("clearAction")
    /\ UNCHANGED << isLiveConnected, isConnecting, transcript, errorMsg, isLocked,
                    blockedUrl, liveSessionRef, scrollIntervalRef, pendingImage,
                    playVars, liveVars, histVars, attempts, startPc >>

\* Authenticate to Unlock (App.tsx 399-404)
Unlock ==
    /\ isLocked
    /\ isLocked' = FALSE
    /\ lastEvent' = Event("unlock")
    /\ UNCHANGED << isLiveConnected, isConnecting, transcript, errorMsg, lastAction,
                    blockedUrl, liveSessionRef, scrollIntervalRef, pendingImage,
                    playVars, liveVars, histVars, attempts, startPc >>

\* the popup-blocked link (App.tsx 411-419)
BlockedUrlClick ==
    /\ blockedUrl # NoUrl
    /\ blockedUrl' = NoUrl
    /\ lastAction' = "null"
    /\ lastEvent' = Event("blockedClick")
    /\ UNCHANGED << isLiveConnected, isConnecting, transcript, errorMsg, isLocked,
                    liveSessionRef, scrollIntervalRef, pendingImage,
                    playVars, liveVars, histVars, attempts, startPc >>

\* JarvisService.generateImage(prompt).then (App.tsx 268-275); img: an image
\* came back
ImageDone(img) ==
    /\ pendingImage > 0
    /\ pendingImage' = pendingImage - 1
    /\ lastAction' = IF img THEN "IMAGE RENDERED" ELSE "ERR: IMAGE GEN FAILED"
    /\ lastEvent' = Event("image")
    /\ UNCHANGED << isLiveConnected, isConnecting, transcript, errorMsg, isLocked,
                    blockedUrl, liveSessionRef, scrollIntervalRef,
                    playVars, liveVars, histVars, attempts, startPc >>

\* a call of JarvisService.sendMessage up to its return
SendMessage(apiKey, remote) ==
    /\ serviceResult' = [fn |-> "sendMessage", apiKey |-> apiKey, remote |-> remote,
                         outcome |-> sendMessage(apiKey, remote)]
    /\ lastEvent' = Event("sendMessage")
    /\ UNCHANGED << appVars, playVars, liveVars, attempts, startPc, nextBuffer,
                    sent, performed, micSent, receivedOutput, modelTurn,
                    transcriptCalls,
                    cancelled >>

\* a call of JarvisService.generateImage up to its return
GenerateImage(apiKey, remote) ==
    /\ serviceResult' = [fn |-> "generateImage", apiKey |-> apiKey, remote |-> remote,
                         outcome |-> generateImage(apiKey, remote)]
    /\ lastEvent' = Event("generateImage")
    /\ UNCHANGED << appVars, playVars, liveVars, attempts, startPc, nextBuffer,
                    sent, performed, micSent, receivedOutput, modelTurn,
                    transcriptCalls,
                    cancelled >>

(***************************************************************************)
(* Inputs.                                                                 *)
(***************************************************************************)
Args(query, url, action, prompt, type) ==
    [query |-> query, url |-> url, action |-> action, prompt |-> prompt,
     type |-> type]

NoArgs == Args(<<>>, <<>>, <<>>, <<>>, <<>>)

FunctionCall(id, name, hasArgs, args) ==
    [id |-> id, name |-> name, hasArgs |-> hasArgs, args |-> args]

InputMessage(text) == Message(FALSE, <<>>, text, <<>>, FALSE, FALSE)
AudioMessage(text) == Message(FALSE, <<>>, <<>>, text, TRUE, FALSE)
OutputMessage(text) == Message(FALSE, <<>>, <<>>, text, FALSE, FALSE)
TurnCompleteMessage == Message(FALSE, <<>>, <<>>, <<>>, FALSE, TRUE)
ToolMessage(functionCalls) == Message(TRUE, functionCalls, <<>>, <<>>, FALSE, FALSE)

\* the errors a failing step can raise
ErrDenied == [name |-> "NotAllowedError", message |-> Str("permission denied")]
ErrUnavailable == [name |-> "Error", message |-> Str("503")]
Errors == {ErrDenied, ErrUnavailable}

\* messages of the playback specification
Messages ==
    {InputMessage(Str("hi")), InputMessage(Str(" ")), AudioMessage(<<>>),
     TurnCompleteMessage,
     ToolMessage(<< FunctionCall("c1", "getCurrentTime", TRUE, NoArgs) >>)}

\* the whole program on the inputs above
Next ==
    \/ \E hasMediaApi \in BOOLEAN, created \in {"running", "suspended"} :
           StartJarvis(hasMediaApi, created, TRUE)
    \/ ResumeDone
    \/ \E a \in Attempts, err \in Errors : MediaFail(a, err, TRUE)
    \/ \E a \in Attempts, hasApiKey \in BOOLEAN : MediaDone(a, hasApiKey, TRUE)
    \/ \E a \in Attempts, err \in Errors : ConnectFail(a, err, TRUE)
    \/ \E a \in Attempts : ConnectOpen(a)
    \/ StopJarvis
    \/ \E a \in Attempts : SessionClose(a)
    \/ \E a \in Attempts, isError \in BOOLEAN : SessionError(a, ErrUnavailable, isError, TRUE)
    \/ \E a \in Attempts : AudioProcess(a)
    \/ \E a \in Attempts, msg \in {InputMessage(Str("hi")), TurnCompleteMessage} :
           OnMessage(a, msg, TRUE)
    \/ \E a \in Attempts : SilenceTimeout(a)

Spec == Init /\ [][Next]_vars

\* playback: a session that connects, every message of Messages, the
\* audio context and its sources, and the ways the session ends
NextPlay ==
    \/ /\ attempts = 0
       /\ \E created \in {"running", "suspended"} : StartJarvis(TRUE, created, TRUE)
    \/ ResumeDone
    \/ MediaDone(1, TRUE, TRUE)
    \/ ConnectOpen(1)
    \/ StopJarvis
    \/ SessionClose(1)
    \/ \E msg \in Messages : OnMessage(1, msg, TRUE)
    \/ SilenceTimeout(1)
    \/ \E i \in 1..MaxAudio : DecodeDone(i)
    \/ \E source \in 1..(MaxAudio + 1) : SourceEnded(source)
    \/ ContextSuspended

SpecPlay == Init /\ [][NextPlay]_vars

(***************************************************************************)
(* Properties.                                                             *)
(***************************************************************************)

\* C1: at most one buffer source started by playNextAudio is playing
\* (started, not ended, not stopped) in every reachable state.
C1_AtMostOnePlaying == Cardinality(playing) <= 1

C3_InputOrToolStopsPlayback ==
    (lastEvent.kind = "message"
        /\ (lastEvent.msg.inputTranscription \/ lastEvent.msg.toolCall))
    => (playing = {} /\ audioQueue = <<>>)

\* C4: the sources started since the last stopAudioPlayback play their
\* buffers in the order in which the audio messages arrived (buffers are
\* numbered in arrival order).
C4_Fifo ==
    \A i, j \in (epochStart + 1)..Len(started) :
        i < j => started[i] < started[j]

\* C7: sendRealtimeInput is called only while the session is open.
C7_MicOnlyWhileOpen == micSent \subseteq {"open"}

\* getStatusText (App.tsx 374-386)
getStatusText ==
    IF isLocked THEN "SYSTEM LOCKED"
    ELSE IF errorMsg # NoError THEN "SYSTEM ERROR"
    ELSE IF isConnecting THEN "ESTABLISHING UPLINK..."
    ELSE IF ~isLiveConnected THEN "SYSTEM STANDBY"
    ELSE IF lastAction # "null" THEN lastAction
    ELSE IF voiceStatus = "listening" THEN "LISTENING..."
    ELSE IF voiceStatus = "processing" THEN "COMPUTING..."
    ELSE IF voiceStatus = "speaking" THEN "SPEAKING"
    ELSE "ONLINE // READY"

\* C10: isConnecting holds only while a startJarvis call is in progress, it
\* never holds together with isLiveConnected, and a connected application
\* with no lock, error or action label shows the voice status.
C10_StatusConsistent ==
    /\ isConnecting => \E a \in Attempts : startPc[a] # "idle"
    /\ ~(isConnecting /\ isLiveConnected)
    /\ (isLiveConnected /\ ~isLocked /\ errorMsg = NoError /\ lastAction = "null")
           => /\ getStatusText # "ESTABLISHING UPLINK..."
              /\ voiceStatus = "idle" => getStatusText = "ONLINE // READY"

(***************************************************************************)
(* Tool calls: a connected session that receives tool-call messages.       *)
(***************************************************************************)
FullArgs == Args(Str("iron") \o Str(" ") \o Str("man"), Str("https://example.org"),
                 Str("down"), Str("a cat"), <<>>)

ToolNames == Delegated \cup {"getCurrentTime", "getSystemStatus", "unknownTool"}

\* every tool name with its arguments present, empty, and undefined
ToolCalls ==
    {FunctionCall("id1", n, TRUE, FullArgs) : n \in ToolNames}
    \cup {FunctionCall("id2", n, h, NoArgs) : n \in ToolNames, h \in BOOLEAN}

\* the calls combined into messages of several calls
CombinedCalls ==
    {FunctionCall("id1", "googleSearch", TRUE, FullArgs),
     FunctionCall("id2", "openWebsite", TRUE, FullArgs),
     FunctionCall("id3", "scrollPage", FALSE, NoArgs),
     FunctionCall("id4", "getCurrentTime", TRUE, NoArgs),
     FunctionCall("id5", "unknownTool", TRUE, NoArgs)}

RECURSIVE SeqsUpTo(_, _)
SeqsUpTo(S, n) ==
    IF n = 0 THEN {<<>>}
    ELSE LET shorter == SeqsUpTo(S, n - 1)
         IN  shorter \cup {Append(q, x) : q \in shorter, x \in S}

\* messages of up to MaxCalls function calls
NextTool ==
    \/ attempts = 0 /\ StartJarvis(TRUE, "running", TRUE)
    \/ MediaDone(1, TRUE, TRUE)
    \/ ConnectOpen(1)
    \/ /\ session[1] = "open"
       /\ \E fcs \in SeqsUpTo(CombinedCalls, MaxCalls), popupOk \in BOOLEAN :
              OnMessage(1, ToolMessage(fcs), popupOk)
    \/ ClearLastAction
    \/ BlockedUrlClick

SpecTool == Init /\ [][NextTool]_vars

\* messages of one function call, every tool and every shape of arguments
NextCallback ==
    \/ attempts = 0 /\ StartJarvis(TRUE, "running", TRUE)
    \/ MediaDone(1, TRUE, TRUE)
    \/ ConnectOpen(1)
    \/ \E fc \in ToolCalls, popupOk \in BOOLEAN :
           OnMessage(1, ToolMessage(<< fc >>), popupOk)
    \/ ClearLastAction
    \/ Unlock
    \/ BlockedUrlClick
    \/ \E img \in BOOLEAN : ImageDone(img)

SpecCallback == Init /\ [][NextCallback]_vars

\* the last task handled a tool-call message
ToolCallHandled == lastEvent.kind = "message" /\ lastEvent.msg.toolCall

\* C5: a tool-call message is answered with exactly one sendToolResponse
\* holding one function response per function call, in the same order,
\* each with the id and name of its call and a result; other messages are
\* not answered.
C5_ToolResponse ==
    lastEvent.kind = "message" =>
        IF lastEvent.msg.toolCall
        THEN LET fcs == lastEvent.msg.functionCalls
             IN  /\ Len(sent) = 1
                 /\ Len(sent[1]) = Len(fcs)
                 /\ \A i \in 1..Len(fcs) :
                        /\ sent[1][i].id = fcs[i].id
                        /\ sent[1][i].name = fcs[i].name
                        /\ "result" \in DOMAIN sent[1][i].response
        ELSE sent = <<>>

\* a message with two function calls of different ids and names was answered
C5_Witness ==
    /\ ToolCallHandled
    /\ Len(lastEvent.msg.functionCalls) = 2
    /\ lastEvent.msg.functionCalls[1].id # lastEvent.msg.functionCalls[2].id
    /\ lastEvent.msg.functionCalls[1].name # lastEvent.msg.functionCalls[2].name
    /\ Len(sent) = 1 /\ Len(sent[1]) = 2

\* the required arguments of the tool declarations (jarvisService.ts 52-144)
RequiredPresent(fc) ==
    /\ fc.hasArgs
    /\ fc.name \in {"playMedia", "googleSearch"} => fc.args.query # <<>>
    /\ fc.name = "controlMedia" => fc.args.action # <<>>
    /\ fc.name = "scrollPage" =>
           fc.args.action \in {Str("up"), Str("down"), Str("auto"), Str("stop")}
    /\ fc.name = "openWebsite" => fc.args.url # <<>>
    /\ fc.name = "generateImage" => fc.args.prompt # <<>>

\* C6: a delegated tool called with its required arguments is never
\* answered 'Unknown tool', and a googleSearch with a query opens the Google
\* search URL of that query (when the browser lets the window open).
C6_DelegatedHandled ==
    ToolCallHandled =>
        \A i \in 1..Len(lastEvent.msg.functionCalls) :
            LET fc == lastEvent.msg.functionCalls[i]
            IN  (fc.name \in Delegated /\ RequiredPresent(fc)) =>
                    /\ sent[1][i].response.result # Result("error", "Unknown tool")
                    /\ (fc.name = "googleSearch" /\ lastEvent.popupOk) =>
                           \E k \in 1..Len(performed) :
                               /\ performed[k].act = "window.open"
                               /\ performed[k].arg =
                                      << [base |-> "https://www.google.com/search?q=",
                                          q |-> encodeURIComponent(fc.args.query)] >>

(***************************************************************************)
(* Transcripts: a connected session that receives model turns.             *)
(***************************************************************************)
TurnMessages ==
    {AudioMessage(<<>>), AudioMessage(Str("a")), AudioMessage(Str(" ")),
     OutputMessage(Str("b")), TurnCompleteMessage,
     Message(FALSE, <<>>, <<>>, Str("c"), TRUE, TRUE), InputMessage(Str("hi"))}

NextTranscript ==
    \/ attempts = 0 /\ StartJarvis(TRUE, "running", TRUE)
    \/ MediaDone(1, TRUE, TRUE)
    \/ ConnectOpen(1)
    \/ \E msg \in TurnMessages : OnMessage(1, msg, TRUE)
    \/ \E i \in 1..MaxAudio : DecodeDone(i)
    \/ \E source \in 1..(MaxAudio + 1) : SourceEnded(source)
    \/ SilenceTimeout(1)

SpecTranscript == Init /\ [][NextTranscript]_vars

\* C8: when a turn completes, onTranscript('model', text) is called exactly
\* once with the concatenation, in arrival order, of all output fragments
\* received since the previous turnComplete if that text is not blank, and
\* not at all if it is blank; no other step of onmessage calls it.
C8_ModelTranscript ==
    lastEvent.kind \in {"message", "decoded"} =>
        transcriptCalls =
            IF lastEvent.turnComplete /\ trim(lastEvent.turn) # <<>>
            THEN << [role |-> "model", text |-> lastEvent.turn] >>
            ELSE <<>>

(***************************************************************************)
(* Errors: startJarvis failing with every error of ErrorInputs.            *)
(***************************************************************************)
ErrorWords ==
    {Word(k, FALSE) : k \in Keywords}
    \cup {Word(k, TRUE) : k \in {"network", "quota", "auth", "busy"}}
    \cup {Word("unauthorized", FALSE), Word("boom", FALSE), Word(" ", FALSE)}

ErrorInputs ==
    {[name |-> n, message |-> m] : n \in ErrorNames, m \in SeqsUpTo(ErrorWords, MaxWords)}

NextErr ==
    \/ attempts = 0 /\ \E onLine \in BOOLEAN : StartJarvis(TRUE, "running", onLine)
    \/ /\ startPc[1] = "media"
       /\ \E err \in ErrorInputs, onLine \in BOOLEAN : MediaFail(1, err, onLine)

SpecErr == Init /\ [][NextErr]_vars

\* the text of an error without regard to case: the message, or toString()
\* when the message is empty
Mentions(err, k) ==
    LET text == IF err.message # <<>> THEN err.message ELSE errorToString(err)
    IN  \E i \in 1..Len(text) : Contains(text[i].w, k)

\* the ten rules in the order of the claim
Rule(n, err, onLine) ==
    CASE n = 1 -> err.name = "AbortError" \/ Mentions(err, "aborted")
      [] n = 2 -> ~onLine
      [] n = 3 -> \/ Mentions(err, "network") \/ Mentions(err, "failed to fetch")
                  \/ Mentions(err, "connection") \/ Mentions(err, "offline")
      [] n = 4 -> \/ Mentions(err, "503") \/ Mentions(err, "unavailable")
                  \/ Mentions(err, "overloaded")
      [] n = 5 -> Mentions(err, "429") \/ Mentions(err, "quota")
      [] n = 6 -> \/ err.name \in {"NotAllowedError", "PermissionDeniedError"}
                  \/ Mentions(err, "permission denied")
      [] n = 7 -> err.name = "NotFoundError" \/ Mentions(err, "device not found")
      [] n = 8 -> \/ err.name = "NotReadableError" \/ Mentions(err, "concurrent")
                  \/ Mentions(err, "busy")
      [] n = 9 -> err.name = "NotSupportedError" \/ Mentions(err, "not supported")
      [] n = 10 -> Mentions(err, "api key") \/ Mentions(err, "auth")

RuleCategory ==
    << CatAbort, CatOffline, CatNetwork, CatOverload, CatRate, CatPermission,
       CatMissing, CatBusy, CatCompat, CatAuth >>

\* C9: categorizeError yields a category for every error; it is the
\* category of the first rule that matches, in the order user abort,
\* offline, network text, 503, 429, permission, device not found, device
\* busy, not supported, api key/auth, and the generic category when no rule
\* matches.
C9_FirstMatchingRule ==
    lastEvent.kind = "mediaFail" =>
        LET err == lastEvent.err
            matching == {n \in 1..10 : Rule(n, err, lastEvent.onLine)}
        IN  IF matching = {} THEN errorMsg.cat = CatGeneric
            ELSE \E n \in matching :
                     /\ \A m \in matching : n <= m
                     /\ errorMsg = Category(RuleCategory[n], <<>>)

\* an error matching both the 503 rule and the 429 rule (and a later one)
\* was put in the 503 category
C9_Witness ==
    /\ lastEvent.kind = "mediaFail"
    /\ Rule(4, lastEvent.err, lastEvent.onLine)
    /\ Rule(5, lastEvent.err, lastEvent.onLine)
    /\ ~Rule(1, lastEvent.err, lastEvent.onLine)
    /\ ~Rule(2, lastEvent.err, lastEvent.onLine)
    /\ ~Rule(3, lastEvent.err, lastEvent.onLine)
    /\ errorMsg = Category(CatOverload, <<>>)

(***************************************************************************)
(* The request methods of the service, called with and without an API key  *)
(* on every response of ImageResponses and TextResponses.                  *)
(***************************************************************************)
PartKinds == {Part(FALSE, <<>>), Part(TRUE, Str("img1")), Part(TRUE, Str("img2")),
              Part(TRUE, <<>>)}

\* the remote call rejects, or resolves with up to MaxParts parts
ImageResponses ==
    {Response(TRUE, <<>>, <<>>)}
    \cup {Response(FALSE, <<>>, parts) : parts \in SeqsUpTo(PartKinds, MaxParts)}

\* the remote call rejects, or resolves with a text, possibly empty
TextResponses ==
    {Response(TRUE, <<>>, <<>>)}
    \cup {Response(FALSE, text, <<>>) : text \in {<<>>, Str("hello"), Str(" ")}}

NextService ==
    \/ \E apiKey \in BOOLEAN, remote \in TextResponses : SendMessage(apiKey, remote)
    \/ \E apiKey \in BOOLEAN, remote \in ImageResponses : GenerateImage(apiKey, remote)

SpecService == Init /\ [][NextService]_vars

\* the positions of the parts that have inline data
InlineParts(parts) == {i \in 1..Len(parts) : parts[i].inlineData}

\* C11: sendMessage and generateImage never throw; without an API key
\* sendMessage returns the 'API Key is missing...' text and generateImage
\* returns null, neither contacting the service; when the remote call fails
\* sendMessage returns 'Error connecting to neural network.' and
\* generateImage returns null; otherwise generateImage returns the data of
\* the first part that has inline data, or null if no part has.
C11_ServiceNeverThrows ==
    LET call == serviceResult
        out == call.outcome
    IN  /\ ~out.throws
        /\ call.fn = "sendMessage" =>
               /\ ~call.apiKey => (out.value = [kind |-> "text", value |-> TextApiKeyMissing]
                                   /\ ~out.contacted)
               /\ (call.apiKey /\ call.remote.throws) =>
                      out.value = [kind |-> "text", value |-> TextErrorConnecting]
        /\ call.fn = "generateImage" =>
               /\ ~call.apiKey => (out.value = Null /\ ~out.contacted)
               /\ (call.apiKey /\ call.remote.throws) => out.value = Null
               /\ (call.apiKey /\ ~call.remote.throws) =>
                      LET parts == call.remote.parts
                      IN  IF InlineParts(parts) = {} THEN out.value = Null
                          ELSE \E i \in InlineParts(parts) :
                                   /\ \A j \in InlineParts(parts) : i <= j
                                   /\ out.value = [kind |-> "data",
                                                   value |-> parts[i].data]

\* generateImage skipped a part without inline data and returned the data
\* of the first of two parts that have
C11_Witness ==
    /\ serviceResult.fn = "generateImage" /\ serviceResult.apiKey
    /\ ~serviceResult.remote.throws
    /\ Len(serviceResult.remote.parts) = 3
    /\ InlineParts(serviceResult.remote.parts) = {2, 3}
    /\ serviceResult.remote.parts[2].data # serviceResult.remote.parts[3].data
    /\ serviceResult.outcome.value =
           [kind |-> "data", value |-> serviceResult.remote.parts[2].data]

(***************************************************************************)
(* Starting and stopping: every sequence of Initiate and Terminate clicks  *)
(* with every way a start can go and a session can end, no messages.       *)
(***************************************************************************)
NextStart ==
    \/ \E hasMediaApi \in BOOLEAN, created \in {"running", "suspended"}, onLine \in BOOLEAN :
           StartJarvis(hasMediaApi, created, onLine)
    \/ ResumeDone
    \/ \E a \in Attempts, err \in Errors, onLine \in BOOLEAN : MediaFail(a, err, onLine)
    \/ \E a \in Attempts, hasApiKey \in BOOLEAN, onLine \in BOOLEAN :
           MediaDone(a, hasApiKey, onLine)
    \/ \E a \in Attempts, err \in Errors, onLine \in BOOLEAN : ConnectFail(a, err, onLine)
    \/ \E a \in Attempts : ConnectOpen(a)
    \/ StopJarvis
    \/ \E a \in Attempts : SessionClose(a)
    \/ \E a \in Attempts, isError \in BOOLEAN :
           SessionError(a, ErrUnavailable, isError, TRUE)

SpecStart == Init /\ [][NextStart]_vars

\* the last task was a startJarvis call ending in its catch block
StartFailed ==
    /\ lastEvent.kind \in {"startJarvis", "mediaFail", "mediaDone", "connectFail"}
    /\ lastEvent.err # NoErr

LiveSessions == {a \in Attempts : session[a] \in {"connecting", "open"}}

\* C13: at most one session is connecting or open at any time, and every
\* open session is the one liveSessionRef refers to.
C13_SingleSession ==
    /\ Cardinality(LiveSessions) <= 1
    /\ \A a \in Attempts : session[a] = "open" => liveSessionRef = a

\* C15: a startJarvis call that was in progress when stopJarvis ran never
\* has an open session afterwards and never makes the application
\* connected.
C15_TerminateCancels ==
    \A a \in cancelled :
        /\ session[a] # "open"
        /\ ~(isLiveConnected /\ liveSessionRef = a)

\* C17: whenever the application is neither connected nor connecting, the
\* voice status is 'idle'.
C17_IdleInStandby ==
    (~isLiveConnected /\ ~isConnecting) => voiceStatus = "idle"

(***************************************************************************)
(* Ending a session that plays audio: the playback specification with a    *)
(* socket error and an auto-scroll started by a tool call.                 *)
(***************************************************************************)
ScrollMessage ==
    ToolMessage(<< FunctionCall("c2", "scrollPage", TRUE,
                                Args(<<>>, <<>>, Str("auto"), <<>>, <<>>)) >>)

NextEnd ==
    \/ /\ attempts = 0
       /\ \E created \in {"running", "suspended"} : StartJarvis(TRUE, created, TRUE)
    \/ ResumeDone
    \/ MediaDone(1, TRUE, TRUE)
    \/ ConnectOpen(1)
    \/ StopJarvis
    \/ SessionClose(1)
    \/ \E isError \in BOOLEAN : SessionError(1, ErrUnavailable, isError, TRUE)
    \/ \E msg \in {InputMessage(Str("hi")), AudioMessage(<<>>), ScrollMessage} :
           OnMessage(1, msg, TRUE)
    \/ \E i \in 1..MaxAudio : DecodeDone(i)
    \/ \E source \in 1..(MaxAudio + 1) : SourceEnded(source)
    \/ ContextSuspended

SpecEnd == Init /\ [][NextEnd]_vars

\* the state stopJarvis is to leave behind
Stopped ==
    /\ liveSessionRef = 0
    /\ ~scrollIntervalRef
    /\ audioQueue = <<>>
    /\ playing = {}
    /\ ~isPlayingAudio
    /\ ~isLiveConnected /\ ~isConnecting
    /\ voiceStatus = "idle"

\* C14: after stopJarvis the session it referred to is disconnected (its
\* microphone graph is unwired and the session is no longer open) and the
\* reference is null, no auto-scroll interval runs, the queue is empty,
\* nothing plays, isLiveConnected and isConnecting are false and the voice
\* status is 'idle'; an onclose that follows stopJarvis keeps that state.
C14_StopJarvis ==
    /\ [](lastEvent.kind = "stopJarvis" =>
            /\ Stopped
            /\ lastEvent.closure # 0 =>
                   /\ session[lastEvent.closure] # "open"
                   /\ ~graphConnected[lastEvent.closure])
    /\ [][(lastEvent.kind = "stopJarvis" /\ Stopped /\ lastEvent'.kind = "onclose")
             => Stopped']_vars

\* C16: the onerror handler calls onError and then onClose, once each;
\* after it the application shows the category of the error, is neither
\* connected nor connecting, has voice status 'idle', an empty queue and
\* nothing playing.
C16_SessionError ==
    lastEvent.kind = "onerror" =>
        /\ lastEvent.calls = << "onError", "onClose" >>
        /\ errorMsg = categorizeError(lastEvent.err, lastEvent.onLine)
        /\ ~isLiveConnected /\ ~isConnecting
        /\ voiceStatus = "idle"
        /\ audioQueue = <<>>
        /\ playing = {}

(***************************************************************************)
(* Properties of the playback specification about ended sessions and       *)
(* cleared queues.                                                         *)
(***************************************************************************)

\* C18: a message handler, a silence timer or a continuation after
\* decodeAudioData calls a callback of the application (status, audio
\* buffer, transcript) only while the session of its closure is open.
C18_NoCallbackAfterEnd ==
    (lastEvent.kind \in {"message", "silenceTimer", "decoded"} /\ lastEvent.calls # <<>>)
        => lastEvent.session = "open"

\* C19: every source started since the last interruption or stopJarvis,
\* and every buffer in the queue, comes from a message received after that
\* interruption or stopJarvis.
C19_NoStaleBuffer ==
    /\ \A i \in (cutoff.started + 1)..Len(started) : started[i] > cutoff.received
    /\ \A k \in 1..Len(audioQueue) : audioQueue[k] > cutoff.received

\* sequence s is the beginning of sequence t
IsPrefix(s, t) == Len(s) <= Len(t) /\ SubSeq(t, 1, Len(s)) = s

\* C20: a step removes buffers from the queue only by dropping the head
\* when the source that played that same buffer ends, or by clearing the
\* whole queue in stopAudioPlayback (interruption, stopJarvis, onClose,
\* onError) or startJarvis; and no buffer is started twice.
C20_QueueRemoval ==
    /\ [][(~IsPrefix(audioQueue, audioQueue')) =>
             \/ /\ lastEvent'.kind = "ended"
                /\ audioQueue' = Tail(audioQueue)
                /\ started[lastEvent'.source] = Head(audioQueue)
             \/ /\ audioQueue' = <<>>
                /\ \/ lastEvent'.kind \in {"startJarvis", "stopJarvis", "onclose", "onerror"}
                   \/ (voiceStatus' # voiceStatus
                         /\ voiceStatus' \in {"listening", "processing"})]_vars
    /\ [](\A i, j \in 1..Len(started) : i # j => started[i] # started[j])

(***************************************************************************)
(* Progress of the playback worker.  The specification adds what the       *)
(* browser guarantees to the playback actions: a pending resume() of the  *)
(* audio context resolves, and a playing source reaches the end of its    *)
(* buffer (the context is not suspended under a playing source).          *)
(***************************************************************************)
NextWorker ==
    \/ /\ attempts = 0
       /\ StartJarvis(TRUE, "running", TRUE)
    \/ ResumeDone
    \/ MediaDone(1, TRUE, TRUE)
    \/ ConnectOpen(1)
    \/ StopJarvis
    \/ \E msg \in {AudioMessage(<<>>), InputMessage(Str("hi"))} : OnMessage(1, msg, TRUE)
    \/ \E i \in 1..MaxAudio : DecodeDone(i)
    \/ \E source \in 1..(MaxAudio + 1) : SourceEnded(source)
    \/ /\ playing = {}
       /\ ContextSuspended

SpecWorker ==
    /\ Init
    /\ [][NextWorker]_vars
    /\ WF_vars(ResumeDone)
    /\ \A source \in 1..(MaxAudio + 1) : WF_vars(SourceEnded(source))

\* the buffers that a playing source plays
PlayingBuffers == {started[source] : source \in playing}

\* the buffers in the queue
Queued == {audioQueue[k] : k \in 1..Len(audioQueue)}

\* the buffers whose playNextAudio waits for resume()
Resuming == {pendingResume[k] : k \in 1..Len(pendingResume)}

\* the buffers that were handed to a source
Started == {started[source] : source \in 1..Len(started)}

\* a queued buffer at the head with nothing playing is eventually started
\* (or the queue is cleared first)
HeadStarts ==
    \A b \in 1..MaxAudio :
        (audioQueue # <<>> /\ Head(audioQueue) = b /\ playing = {})
            ~> (b \in PlayingBuffers \/ b \notin Queued)

\* a queued buffer is eventually done with: out of the queue, not playing
\* and not waiting for resume()
BufferFinishes ==
    \A b \in 1..MaxAudio :
        (b \in Queued) ~> (b \notin Queued /\ b \notin PlayingBuffers /\ b \notin Resuming)

\* a buffer that leaves the queue without having been handed to a source
\* leaves it in a clear of the whole queue, not in an onended handler
UnplayedOnlyCleared ==
    [][\A b \in 1..MaxAudio :
          (b \in Queued /\ b \notin Queued' /\ b \notin Started')
              => (audioQueue' = <<>> /\ lastEvent'.kind # "ended")]_vars

\* isPlayingAudio does not stay true forever with no source playing
FlagReleased == []<>(~isPlayingAudio \/ playing # {})

\* C21: the playback worker makes progress: when the queue is non-empty
\* and nothing is playing, the head buffer is eventually started; given
\* that every started source ends, every enqueued buffer is eventually
\* played to completion or discarded by a clear of the queue; and
\* isPlayingAudio never stays true forever with no source playing.
C21_WorkerProgress ==
    /\ HeadStarts
    /\ BufferFinishes
    /\ UnplayedOnlyCleared
    /\ FlagReleased

\* the second of two queued buffers has been played to its end
C21_Witness ==
    /\ lastEvent.kind = "ended"
    /\ lastEvent.source = 2
    /\ started = << 1, 2 >>
    /\ audioQueue = <<>>
    /\ playing = {}
    /\ ~isPlayingAudio

(***************************************************************************)
(* Properties of the turn state of connectLive.                            *)
(***************************************************************************)

\* the messages of a turn: user input, model audio, and a turnComplete that
\* arrives alone or in the message of the last audio chunk
TurnInputs ==
    {InputMessage(Str("hi")), AudioMessage(<<>>), TurnCompleteMessage,
     Message(FALSE, <<>>, <<>>, Str("c"), TRUE, TRUE)}

NextTurn ==
    \/ /\ attempts = 0
       /\ StartJarvis(TRUE, "running", TRUE)
    \/ MediaDone(1, TRUE, TRUE)
    \/ ConnectOpen(1)
    \/ \E msg \in TurnInputs : OnMessage(1, msg, TRUE)
    \/ \E i \in 1..MaxAudio : DecodeDone(i)
    \/ SilenceTimeout(1)

SpecTurn == Init /\ [][NextTurn]_vars

\* C22: after a step that ran the turn-complete part of onmessage, the
\* closure's isModelSpeaking is false, no silence timer is pending, both
\* accumulated transcriptions are empty, and the last status the handler
\* emitted is 'idle'.
C22_TurnCompleteResets ==
    lastEvent.turnComplete =>
        /\ ~isModelSpeaking[lastEvent.closure]
        /\ ~silenceTimer[lastEvent.closure]
        /\ currentInputTranscription[lastEvent.closure] = <<>>
        /\ currentOutputTranscription[lastEvent.closure] = <<>>
        /\ lastEvent.statuses # <<>>
        /\ lastEvent.statuses[Len(lastEvent.statuses)] = "idle"

\* a turnComplete message that arrived without audio has been handled and
\* left the closure reset
C22_Witness ==
    /\ lastEvent.kind = "message"
    /\ lastEvent.turnComplete
    /\ lastEvent.statuses = << "idle" >>
    /\ voiceStatus = "idle"
    /\ ~silenceTimer[1]
    /\ ~isModelSpeaking[1]
    /\ currentInputTranscription[1] = <<>>
    /\ nextBuffer = 0

\* C23: in the interval from an audio-bearing message to the turnComplete
\* of its turn, a message with an input transcription does not emit
\* 'listening' and the silence timer does not emit 'processing'; outside
\* the interval every message with an input transcription emits 'listening'.
C23_SpeakingGate ==
    /\ (lastEvent.kind = "message" /\ lastEvent.msg.inputTranscription) =>
           (lastEvent.modelTurn <=>
               \A k \in 1..Len(lastEvent.statuses) : lastEvent.statuses[k] # "listening")
    /\ (lastEvent.kind = "silenceTimer" /\ lastEvent.modelTurn) =>
           \A k \in 1..Len(lastEvent.statuses) : lastEvent.statuses[k] # "processing"

=============================================================================
